---- MODULE Spec2Model ----
(***************************************************************************)
(* A model of serial_vcr.py: the VCR class driving a JVC-style deck over   *)
(* a blocking serial transport.  The engine is one sequential program; its *)
(* position is a call stack of method frames.  Every blocking call of the  *)
(* code (vcr.write, vcr.read, time.sleep) is one step.  The deck and the   *)
(* serial link are the environment: the deck answers a written command     *)
(* with a full reply or with a lone NAK/ERROR byte, the link may fail, and *)
(* time passes while a read blocks.  Byte strings are sequences of 0..255. *)
(***************************************************************************)
EXTENDS Integers, Sequences, FiniteSets, TLC

VARIABLES
    stack,       \* the method frames, outermost first
    ret,         \* the value or exception being handed to the top frame
    op,          \* the operation the caller invoked last, with its arguments
    cv,          \* locals of converse
    wum,         \* locals of wait_until_mode
    stage,       \* position inside rewind_to_beginning / play_to_end
    now,         \* time.time(), in whole seconds
    rx,          \* bytes the deck has sent and the engine has not read yet
    devPending,  \* a written command the deck has not answered yet
    constructed, \* VCR.__init__ has completed
    calls,       \* history: transport calls issued by the current converse
    quiet,       \* history: no write since the last 5 ms quiescent wait
    wire,        \* history: bytes written since the caller's call began
    rxlog        \* history: bytes the reads of the current converse returned

vars == <<stack, ret, op, cv, wum, stage, now, rx, devPending, constructed,
          calls, quiet, wire, rxlog>>

----------------------------------------------------------------------------
\* Protocol constants (serial_vcr.py lines 4-36)

ACK == 10
NAK == 11
ERROR == 2
REW == 172
STOP == 63
PLAY == 58
CURRENT_CTL_SENSE == 217
CURRENT_LTC_SENSE == 220
STATUS_SENSE == 215
VCR_INQ == 251
DEVICE_TYPE_REQUEST == 209
ROM_VER_REQUEST == 114
JVC_TABLE_1 == 246
POWER_ON == 123

\* timeout = 10 of the motion-flag poll in rewind_to_beginning / play_to_end
MOTION_TIMEOUT == 10

\* Bounds of the model
MaxTime == 12
MaxTimeout == 2

----------------------------------------------------------------------------
\* Status tables

STATUS_SENSE_MODE_BITS ==
    << <<"ERROR", "", "", "CASSETTE OUT", "REC INHIBIT", "SHORT FF/REW", "", "">>,
       <<"TAPE END", "TAPE BEGIN", "", "WARNING", "AUDIO MUTE", "VIDEO MUTE",
         "A1 EE MODE", "EE MODE">>,
       <<"", "SEARCH MODE", "REPEAT MODE", "", "REPEAT", "", "", "">>,
       <<"AUDIODUB", "REC", "EJECT", "STANDBY", "STOP", "REW", "FF", "PLAY">>,
       <<"", "", "", "", "SHUTTLE REV", "SHUTTLE FWD", "LONG PAUSE", "PAUSE">> >>

\* The tuple as Python builds it: 'INVALID(4)' '1' are adjacent literals and
\* concatenate, so the tuple has 15 elements.
SPEED_TABLE ==
    <<"STILL", "1/30", "1/18", "1/6", "INVALID(4)1", "2(-3)", "5", "7", "11",
      "15", "24", "INVALID(C)", "INVALID(D)", "INVALID(E)", "INVALID(F)">>

Pow2(i) == 2 ^ i

BitSet(num, i) == (num \div Pow2(i)) % 2 = 1

RECURSIVE TranslateFrom(_, _, _)
TranslateFrom(num, bit_meanings, i) ==
    IF i > Len(bit_meanings) THEN <<>>
    ELSE (IF BitSet(num, i - 1) /\ bit_meanings[i] # ""
              THEN <<bit_meanings[i]>> ELSE <<>>)
         \o TranslateFrom(num, bit_meanings, i + 1)

translate_bits(num, bit_meanings) == TranslateFrom(num, bit_meanings, 1)

RECURSIVE ModesFrom(_, _)
ModesFrom(data, i) ==
    IF i > Len(STATUS_SENSE_MODE_BITS) THEN <<>>
    ELSE translate_bits(data[i], STATUS_SENSE_MODE_BITS[i]) \o ModesFrom(data, i + 1)

SpeedIndex(data) == data[5] % 16

Elems(s) == {s[i] : i \in 1..Len(s)}

----------------------------------------------------------------------------
\* Values handed between frames

NoTimeout == [has |-> FALSE, at |-> 0]
Timeout(t) == [has |-> TRUE, at |-> t]

Blank ==
    [kind |-> "none", bytes |-> <<>>, flag |-> FALSE, modes |-> <<>>,
     exc |-> "", expected |-> 0, got |-> <<>>]

RetBytes(b) == [Blank EXCEPT !.kind = "bytes", !.bytes = b]
RetBool(f) == [Blank EXCEPT !.kind = "bool", !.flag = f]
RetModes(m) == [Blank EXCEPT !.kind = "modes", !.modes = m]
RetNone == [Blank EXCEPT !.kind = "None"]
VCRTime(raw_time) == [Blank EXCEPT !.kind = "VCRTime", !.bytes = raw_time]

BadResponseError(expected, got) ==
    [Blank EXCEPT !.kind = "raise", !.exc = "BadResponseError",
                  !.expected = expected, !.got = got]
ErrorWhileReadingError(got) ==
    [Blank EXCEPT !.kind = "raise", !.exc = "ErrorWhileReadingError", !.got = got]
SerialException == [Blank EXCEPT !.kind = "raise", !.exc = "SerialException"]
IndexError == [Blank EXCEPT !.kind = "raise", !.exc = "IndexError"]

Chr(c) == <<c>>
Ord(s) == s[1]

Top == IF stack = <<>> THEN "" ELSE stack[Len(stack)]
Pop == SubSeq(stack, 1, Len(stack) - 1)

NoOp ==
    [name |-> "", command |-> 0, num_bytes |-> 0, check |-> FALSE, mode |-> "",
     timeout |-> NoTimeout]

IdleCv ==
    [pc |-> "idle", command |-> 0, num_bytes |-> 0, check |-> FALSE,
     want |-> 0, first_byte |-> <<>>, out |-> Blank]

IdleWum ==
    [pc |-> "idle", mode |-> "", abort_time |-> NoTimeout, t0 |-> 0, polls |-> 0,
     sleeps |-> 0, seen |-> <<>>]

----------------------------------------------------------------------------
\* The deck: what it may answer to a command

\* The static reply length of each command, as the callers pass it
ReplyLength(command) ==
    CASE command = DEVICE_TYPE_REQUEST -> 4
      [] command = ROM_VER_REQUEST -> 3
      [] command = STATUS_SENSE -> 5
      [] command \in {CURRENT_CTL_SENSE, CURRENT_LTC_SENSE} -> 8
      [] OTHER -> 1

StatusReplies ==
    {<<8, 0, 0, b4, b5>> : b4 \in {0, 16, 32, 128}, b5 \in {0, 4, 15}}

FullReplies(command) ==
    CASE command = DEVICE_TYPE_REQUEST -> {<<74, 86, 67, 49>>}
      [] command = ROM_VER_REQUEST -> {<<1, 2, 3>>}
      [] command = STATUS_SENSE -> StatusReplies
      [] command \in {CURRENT_CTL_SENSE, CURRENT_LTC_SENSE} ->
             {<<48, 49, 48, 50, 51, 53, 49, 50>>}
      [] OTHER -> {<<ACK>>, <<0>>}

DeckReplies(command) == FullReplies(command) \cup {<<NAK>>, <<ERROR>>}

----------------------------------------------------------------------------
\* converse (lines 263-288)

\* try/finally: every way out of the try block runs the 5 ms sleep
ExitPc_NoFinally(out) == IF out.kind = "raise" THEN "ret" ELSE "finally"
ExitPc(out) == "finally"

\* the first read after the write: vcr.read(1) if check else vcr.read(num_bytes)
FirstReadLen_AlwaysSniff(num_bytes, check) == 1
FirstReadLen(num_bytes, check) == IF check THEN 1 ELSE num_bytes

\* ord(first_byte) in (NAK, ERROR)
IsErrorCode_NakOnly(b) == b = NAK
IsErrorCode(b) == b \in {NAK, ERROR}

\* vcr.read(num_bytes-1)
RestLen_Whole(num_bytes) == num_bytes
RestLen_Short(num_bytes) == num_bytes - 2
RestLen(num_bytes) == num_bytes - 1

ConverseFrame(command, num_bytes, check) ==
    [pc |-> "write", command |-> command, num_bytes |-> num_bytes,
     check |-> check, want |-> 0, first_byte |-> <<>>, out |-> Blank]

InConverse == stack # <<>> /\ Top = "converse"

Leave(out) == [cv EXCEPT !.pc = ExitPc(out), !.out = out]

\* vcr.write(chr(command)) succeeds; the code goes on to block in its first read
Write ==
    /\ InConverse /\ cv.pc = "write"
    /\ cv' = [cv EXCEPT !.pc = IF cv.check THEN "read1" ELSE "read",
                         !.want = FirstReadLen(cv.num_bytes, cv.check)]
    /\ calls' = calls \o <<[call |-> "write", n |-> Len(Chr(cv.command))],
                           [call |-> "read", n |-> FirstReadLen(cv.num_bytes, cv.check)]>>
    /\ wire' = wire \o Chr(cv.command)
    /\ quiet' = FALSE
    /\ devPending' = TRUE
    /\ UNCHANGED <<stack, ret, op, wum, stage, now, rx, constructed, rxlog>>

\* vcr.write raises
WriteFails ==
    /\ InConverse /\ cv.pc = "write"
    /\ cv' = Leave(SerialException)
    /\ calls' = Append(calls, [call |-> "write", n |-> Len(Chr(cv.command))])
    /\ quiet' = FALSE
    /\ rx' = <<>>
    /\ devPending' = FALSE
    /\ UNCHANGED <<stack, ret, op, wum, stage, now, constructed, wire, rxlog>>

\* first_byte = vcr.read(1) returns, and the code acts on the byte
ReadFirst ==
    /\ InConverse /\ cv.pc = "read1"
    /\ Len(rx) >= cv.want
    /\ LET first_byte == SubSeq(rx, 1, cv.want)
       IN  /\ rx' = SubSeq(rx, cv.want + 1, Len(rx))
           /\ rxlog' = rxlog \o first_byte
           /\ IF IsErrorCode(Ord(first_byte))
                 THEN /\ cv' = [Leave(ErrorWhileReadingError(first_byte))
                                   EXCEPT !.first_byte = first_byte]
                      /\ calls' = calls
                 ELSE IF cv.num_bytes > 1
                 THEN /\ cv' = [cv EXCEPT !.pc = "readrest", !.first_byte = first_byte,
                                             !.want = RestLen(cv.num_bytes)]
                      /\ calls' = Append(calls, [call |-> "read",
                                                 n |-> RestLen(cv.num_bytes)])
                 ELSE /\ cv' = [Leave(RetBytes(first_byte))
                                   EXCEPT !.first_byte = first_byte]
                      /\ calls' = calls
    /\ UNCHANGED <<stack, ret, op, wum, stage, now, devPending, constructed,
                   quiet, wire>>

\* data = vcr.read(num_bytes-1) returns
ReadRest ==
    /\ InConverse /\ cv.pc = "readrest"
    /\ Len(rx) >= cv.want
    /\ LET data == SubSeq(rx, 1, cv.want)
       IN  /\ rx' = SubSeq(rx, cv.want + 1, Len(rx))
           /\ rxlog' = rxlog \o data
           /\ cv' = Leave(RetBytes(cv.first_byte \o data))
    /\ UNCHANGED <<stack, ret, op, wum, stage, now, devPending, constructed,
                   calls, quiet, wire>>

\* vcr.read(num_bytes) returns (no sniffing)
ReadAll ==
    /\ InConverse /\ cv.pc = "read"
    /\ Len(rx) >= cv.want
    /\ LET data == SubSeq(rx, 1, cv.want)
       IN  /\ rx' = SubSeq(rx, cv.want + 1, Len(rx))
           /\ rxlog' = rxlog \o data
           /\ cv' = Leave(RetBytes(data))
    /\ UNCHANGED <<stack, ret, op, wum, stage, now, devPending, constructed,
                   calls, quiet, wire>>

Reading == InConverse /\ cv.pc \in {"read1", "readrest", "read"}

\* a blocked vcr.read raises
ReadFails ==
    /\ Reading
    /\ cv' = Leave(SerialException)
    /\ rx' = <<>>
    /\ devPending' = FALSE
    /\ UNCHANGED <<stack, ret, op, wum, stage, now, constructed, calls, quiet, wire, rxlog>>

\* finally: time.sleep(0.005)
Sleep5 ==
    /\ InConverse /\ cv.pc = "finally"
    /\ cv' = [cv EXCEPT !.pc = "ret"]
    /\ quiet' = TRUE
    /\ UNCHANGED <<stack, ret, op, wum, stage, now, rx, devPending, constructed,
                   calls, wire, rxlog>>

\* converse hands its value or exception to its caller
ConverseReturn ==
    /\ InConverse /\ cv.pc = "ret"
    /\ stack' = Pop
    /\ ret' = cv.out
    /\ cv' = [cv EXCEPT !.pc = "idle"]
    /\ UNCHANGED <<op, wum, stage, now, rx, devPending, constructed, calls,
                   quiet, wire, rxlog>>

----------------------------------------------------------------------------
\* The environment

\* the deck answers the command it was sent
DeckReply ==
    /\ devPending
    /\ \E r \in DeckReplies(cv.command) : rx' = rx \o r
    /\ devPending' = FALSE
    /\ UNCHANGED <<stack, ret, op, cv, wum, stage, now, constructed, calls,
                   quiet, wire, rxlog>>

\* a second passes while a read blocks
Tick ==
    /\ Reading
    /\ now < MaxTime
    /\ now' = now + 1
    /\ UNCHANGED <<stack, ret, op, cv, wum, stage, rx, devPending, constructed,
                   calls, quiet, wire, rxlog>>

----------------------------------------------------------------------------
\* Entering a method

\* a frame calls self.converse(command, num_bytes, check) through `frames`
Enter(frames, command, num_bytes, check) ==
    /\ stack' = stack \o frames \o <<"converse">>
    /\ cv' = ConverseFrame(command, num_bytes, check)
    /\ calls' = <<>>
    /\ rxlog' = <<>>
    /\ ret' = Blank

\* abort_time = None if timeout is None else time.time() + timeout
AbortTime(timeout, t) == IF timeout.has THEN Timeout(t + timeout.at) ELSE NoTimeout

WumFrame(mode, timeout) ==
    [pc |-> "poll", mode |-> mode, abort_time |-> AbortTime(timeout, now),
     t0 |-> now, polls |-> 1, sleeps |-> 0, seen |-> <<>>]

\* wait_until_mode is entered and evaluates self.status_sense() for the first time
EnterWaitUntilMode(frames, mode, timeout) ==
    /\ wum' = WumFrame(mode, timeout)
    /\ Enter(frames \o <<"wait_until_mode", "status_sense">>, STATUS_SENSE, 5, FALSE)

Idle == stack = <<>> /\ constructed

Handed == stack # <<>> /\ ret.kind # "none"

----------------------------------------------------------------------------
\* The caller invokes an operation on the constructed engine

CallIsAVcr ==
    /\ Idle
    /\ op' = [NoOp EXCEPT !.name = "is_a_vcr"]
    /\ Enter(<<"is_a_vcr">>, VCR_INQ, 1, FALSE)
    /\ wire' = <<>> /\ wum' = IdleWum /\ stage' = ""
    /\ UNCHANGED <<now, rx, devPending, constructed, quiet>>

CallDeviceType ==
    /\ Idle
    /\ op' = [NoOp EXCEPT !.name = "device_type"]
    /\ Enter(<<"device_type">>, DEVICE_TYPE_REQUEST, 4, FALSE)
    /\ wire' = <<>> /\ wum' = IdleWum /\ stage' = ""
    /\ UNCHANGED <<now, rx, devPending, constructed, quiet>>

CallRomVersion ==
    /\ Idle
    /\ op' = [NoOp EXCEPT !.name = "rom_version"]
    /\ Enter(<<"rom_version">>, ROM_VER_REQUEST, 3, FALSE)
    /\ wire' = <<>> /\ wum' = IdleWum /\ stage' = ""
    /\ UNCHANGED <<now, rx, devPending, constructed, quiet>>

CallStatusSense ==
    /\ Idle
    /\ op' = [NoOp EXCEPT !.name = "status_sense"]
    /\ Enter(<<"status_sense">>, STATUS_SENSE, 5, FALSE)
    /\ wire' = <<>> /\ wum' = IdleWum /\ stage' = ""
    /\ UNCHANGED <<now, rx, devPending, constructed, quiet>>

CallGetCtlTime ==
    /\ Idle
    /\ op' = [NoOp EXCEPT !.name = "get_ctl_time"]
    /\ Enter(<<"get_ctl_time">>, CURRENT_CTL_SENSE, 8, TRUE)
    /\ wire' = <<>> /\ wum' = IdleWum /\ stage' = ""
    /\ UNCHANGED <<now, rx, devPending, constructed, quiet>>

CallGetLtcTime ==
    /\ Idle
    /\ op' = [NoOp EXCEPT !.name = "get_ltc_time"]
    /\ Enter(<<"get_ltc_time">>, CURRENT_LTC_SENSE, 8, TRUE)
    /\ wire' = <<>> /\ wum' = IdleWum /\ stage' = ""
    /\ UNCHANGED <<now, rx, devPending, constructed, quiet>>

OneshotCommands == {POWER_ON, STOP}

CallOneshot ==
    /\ Idle
    /\ \E command \in OneshotCommands :
          /\ op' = [NoOp EXCEPT !.name = "oneshot", !.command = command]
          /\ Enter(<<"oneshot">>, command, 1, FALSE)
    /\ wire' = <<>> /\ wum' = IdleWum /\ stage' = ""
    /\ UNCHANGED <<now, rx, devPending, constructed, quiet>>

ConverseCommands == {VCR_INQ, ROM_VER_REQUEST, CURRENT_CTL_SENSE}

CallConverse ==
    /\ Idle
    /\ \E command \in ConverseCommands, check \in BOOLEAN :
          /\ op' = [NoOp EXCEPT !.name = "converse", !.command = command,
                                !.num_bytes = ReplyLength(command), !.check = check]
          /\ stack' = <<"converse">>
          /\ cv' = ConverseFrame(command, ReplyLength(command), check)
    /\ calls' = <<>> /\ rxlog' = <<>> /\ ret' = Blank
    /\ wire' = <<>> /\ wum' = IdleWum /\ stage' = ""
    /\ UNCHANGED <<now, rx, devPending, constructed, quiet>>

Modes == {"STOP", "REW", "PLAY"}

Timeouts == {NoTimeout} \cup {Timeout(t) : t \in 0..MaxTimeout}

CallWaitUntilMode ==
    /\ Idle
    /\ \E mode \in Modes, timeout \in Timeouts :
          /\ op' = [NoOp EXCEPT !.name = "wait_until_mode", !.mode = mode,
                                !.timeout = timeout]
          /\ EnterWaitUntilMode(<<>>, mode, timeout)
    /\ wire' = <<>> /\ stage' = ""
    /\ UNCHANGED <<now, rx, devPending, constructed, quiet>>

MotionOps == {"rewind_to_beginning", "play_to_end"}

MotionCommand(name) == IF name = "rewind_to_beginning" THEN REW ELSE PLAY

MotionFlag(name) == IF name = "rewind_to_beginning" THEN "REW" ELSE "PLAY"

\* rewind_to_beginning / play_to_end start with self.oneshot(REW / PLAY)
CallMotion ==
    /\ Idle
    /\ \E name \in MotionOps :
          /\ op' = [NoOp EXCEPT !.name = name]
          /\ Enter(<<name, "oneshot">>, MotionCommand(name), 1, FALSE)
    /\ wire' = <<>> /\ wum' = IdleWum /\ stage' = "oneshot"
    /\ UNCHANGED <<now, rx, devPending, constructed, quiet>>

----------------------------------------------------------------------------
\* What each method does with the value or exception its callee hands it

\* an exception the frame does not catch leaves the frame
Propagate_Swallow ==
    /\ stack' = Pop
    /\ ret' = RetNone
Propagate ==
    /\ stack' = Pop
    /\ ret' = ret

\* is_a_vcr: return self.converse(VCR_INQ) == chr(ACK)
IsAck_NotNak(reply) == reply # Chr(NAK)
IsAck(reply) == reply = Chr(ACK)

IsAVcrReturn ==
    /\ Handed /\ Top = "is_a_vcr"
    /\ stack' = Pop
    /\ ret' = IF ret.kind = "raise" THEN ret ELSE RetBool(IsAck(ret.bytes))
    /\ UNCHANGED <<op, cv, wum, stage, now, rx, devPending, constructed, calls,
                   quiet, wire, rxlog>>

\* device_type: return self.converse(DEVICE_TYPE_REQUEST, 4)
DeviceTypeReturn ==
    /\ Handed /\ Top = "device_type"
    /\ Propagate
    /\ UNCHANGED <<op, cv, wum, stage, now, rx, devPending, constructed, calls,
                   quiet, wire, rxlog>>

\* rom_version: return self.converse(ROM_VER_REQUEST, 3)
RomVersionReturn ==
    /\ Handed /\ Top = "rom_version"
    /\ Propagate
    /\ UNCHANGED <<op, cv, wum, stage, now, rx, devPending, constructed, calls,
                   quiet, wire, rxlog>>

\* get_ctl_time / get_ltc_time: return VCRTime(self.converse(..., 8, check=True))
GetTimeReturn ==
    /\ Handed /\ Top \in {"get_ctl_time", "get_ltc_time"}
    /\ stack' = Pop
    /\ ret' = IF ret.kind = "raise" THEN ret ELSE VCRTime(ret.bytes)
    /\ UNCHANGED <<op, cv, wum, stage, now, rx, devPending, constructed, calls,
                   quiet, wire, rxlog>>

\* status_sense: the modes of the five bytes, then SPEED_TABLE[ord(data[4]) & 0xF]
StatusResult(data) ==
    IF SpeedIndex(data) + 1 > Len(SPEED_TABLE)
        THEN IndexError
        ELSE RetModes(ModesFrom(data, 1) \o <<SPEED_TABLE[SpeedIndex(data) + 1]>>)

StatusSenseReturn ==
    /\ Handed /\ Top = "status_sense"
    /\ stack' = Pop
    /\ ret' = IF ret.kind = "raise" THEN ret ELSE StatusResult(ret.bytes)
    /\ UNCHANGED <<op, cv, wum, stage, now, rx, devPending, constructed, calls,
                   quiet, wire, rxlog>>

\* oneshot: if ret != '\x0A': raise BadResponseError(ACK, ret)
OneshotBad_NakOnly(reply) == reply = Chr(NAK)
OneshotBad(reply) == reply # <<10>>

OneshotResult(reply) ==
    IF OneshotBad(reply) THEN BadResponseError(ACK, reply) ELSE RetNone

OneshotReturn ==
    /\ Handed /\ Top = "oneshot"
    /\ stack' = Pop
    /\ ret' = IF ret.kind = "raise" THEN ret ELSE OneshotResult(ret.bytes)
    /\ UNCHANGED <<op, cv, wum, stage, now, rx, devPending, constructed, calls,
                   quiet, wire, rxlog>>

\* __init__: try: self.oneshot(JVC_TABLE_1) except BadResponseError: pass
InitCatches_Nothing(exc) == FALSE
InitCatches_All(exc) == TRUE
InitCatches(exc) == exc = "BadResponseError"

InitReturn ==
    /\ Handed /\ Top = "__init__"
    /\ stack' = Pop
    /\ IF ret.kind = "raise" /\ ~InitCatches(ret.exc)
          THEN ret' = ret /\ constructed' = FALSE
          ELSE ret' = RetNone /\ constructed' = TRUE
    /\ UNCHANGED <<op, cv, wum, stage, now, rx, devPending, calls, quiet, wire, rxlog>>

\* the caller constructs the engine again after a constructor that raised
Construct ==
    /\ stack = <<>> /\ ~constructed
    /\ op' = [NoOp EXCEPT !.name = "__init__"]
    /\ Enter(<<"__init__", "oneshot">>, JVC_TABLE_1, 1, FALSE)
    /\ wire' = <<>> /\ wum' = IdleWum /\ stage' = ""
    /\ rx' = <<>> /\ devPending' = FALSE
    /\ UNCHANGED <<now, constructed, quiet>>

----------------------------------------------------------------------------
\* wait_until_mode (lines 250-256)

\* while mode not in self.status_sense()
ModeIn_Never(mode, modes) == FALSE
ModeIn(mode, modes) == mode \in Elems(modes)

\* if abort_time is not None and abort_time>time.time(): return False
ShouldAbort_NoneAborts(abort_time, t) == ~abort_time.has \/ abort_time.at > t
ShouldAbort(abort_time, t) == abort_time.has /\ abort_time.at > t

\* status_sense has returned to the loop test
WaitUntilModeTest ==
    /\ Handed /\ Top = "wait_until_mode" /\ wum.pc = "poll"
    /\ IF ret.kind = "raise"
          THEN /\ Propagate
               /\ wum' = [wum EXCEPT !.pc = "idle"]
          ELSE IF ModeIn(wum.mode, ret.modes)
          THEN /\ stack' = Pop
               /\ ret' = RetBool(TRUE)
               /\ wum' = [wum EXCEPT !.pc = "idle", !.seen = ret.modes]
          ELSE /\ stack' = stack
               /\ ret' = Blank
               /\ wum' = [wum EXCEPT !.pc = "sleep", !.seen = ret.modes]
    /\ UNCHANGED <<op, cv, stage, now, rx, devPending, constructed, calls,
                   quiet, wire, rxlog>>

\* time.sleep(1), the abort test, and the next self.status_sense()
Sleep1 ==
    /\ stack # <<>> /\ Top = "wait_until_mode" /\ wum.pc = "sleep"
    /\ now < MaxTime
    /\ now' = now + 1
    /\ IF ShouldAbort(wum.abort_time, now')
          THEN /\ stack' = Pop
               /\ ret' = RetBool(FALSE)
               /\ wum' = [wum EXCEPT !.pc = "idle", !.sleeps = @ + 1]
               /\ UNCHANGED <<cv, calls, rxlog>>
          ELSE /\ wum' = [wum EXCEPT !.pc = "poll", !.polls = @ + 1, !.sleeps = @ + 1]
               /\ Enter(<<"status_sense">>, STATUS_SENSE, 5, FALSE)
    /\ UNCHANGED <<op, stage, rx, devPending, constructed, quiet, wire>>

----------------------------------------------------------------------------
\* rewind_to_beginning / play_to_end (lines 230-242)

InMotionOp == Handed /\ Top \in MotionOps

\* an exception of oneshot or wait_until_mode leaves the operation
MotionRaises ==
    /\ InMotionOp /\ ret.kind = "raise"
    /\ Propagate
    /\ UNCHANGED <<op, cv, wum, stage, now, rx, devPending, constructed, calls,
                   quiet, wire, rxlog>>

\* oneshot returned: self.wait_until_mode('REW' / 'PLAY', timeout = 10)
MotionAcked ==
    /\ InMotionOp /\ ret.kind # "raise" /\ stage = "oneshot"
    /\ stage' = "motion"
    /\ EnterWaitUntilMode(<<>>, MotionFlag(Top), Timeout(MOTION_TIMEOUT))
    /\ UNCHANGED <<op, now, rx, devPending, constructed, quiet, wire>>

\* the first wait returned (its value is dropped): self.wait_until_mode('STOP')
MotionPolled ==
    /\ InMotionOp /\ ret.kind # "raise" /\ stage = "motion"
    /\ stage' = "stop"
    /\ EnterWaitUntilMode(<<>>, "STOP", NoTimeout)
    /\ UNCHANGED <<op, now, rx, devPending, constructed, quiet, wire>>

\* the second wait returned: the operation returns None
MotionStopped ==
    /\ InMotionOp /\ ret.kind # "raise" /\ stage = "stop"
    /\ stage' = "done"
    /\ stack' = Pop
    /\ ret' = RetNone
    /\ UNCHANGED <<op, cv, wum, now, rx, devPending, constructed, calls,
                   quiet, wire, rxlog>>

----------------------------------------------------------------------------
\* The program

\* VCR.__init__ has opened the port and is about to send JVC_TABLE_1
Init ==
    /\ stack = <<"__init__", "oneshot", "converse">>
    /\ ret = Blank
    /\ op = [NoOp EXCEPT !.name = "__init__"]
    /\ cv = ConverseFrame(JVC_TABLE_1, 1, FALSE)
    /\ wum = IdleWum
    /\ stage = ""
    /\ now = 0
    /\ rx = <<>>
    /\ devPending = FALSE
    /\ constructed = FALSE
    /\ calls = <<>>
    /\ quiet = TRUE
    /\ wire = <<>>
    /\ rxlog = <<>>

Next ==
    \/ Write \/ WriteFails \/ ReadFirst \/ ReadRest \/ ReadAll \/ ReadFails
    \/ Sleep5 \/ ConverseReturn
    \/ DeckReply \/ Tick
    \/ CallIsAVcr \/ CallDeviceType \/ CallRomVersion \/ CallStatusSense
    \/ CallGetCtlTime \/ CallGetLtcTime \/ CallOneshot \/ CallConverse
    \/ CallWaitUntilMode \/ CallMotion \/ Construct
    \/ IsAVcrReturn \/ DeviceTypeReturn \/ RomVersionReturn \/ GetTimeReturn
    \/ StatusSenseReturn \/ OneshotReturn \/ InitReturn
    \/ WaitUntilModeTest \/ Sleep1
    \/ MotionRaises \/ MotionAcked \/ MotionPolled \/ MotionStopped

Spec == Init /\ [][Next]_vars

----------------------------------------------------------------------------
\* status_sense as a function of the five bytes converse returned to it

DecodeReplies ==
    {<<b1, b2, 0, b4, n + h>> :
        b1 \in {0, 8, 129, 255}, b2 \in {0, 3}, b4 \in {0, 16, 160},
        n \in 0..15, h \in {0, 240}}

\* status_sense holds data = self.converse(STATUS_SENSE, 5) and is about to decode it
InitDecode ==
    \E data \in DecodeReplies :
        /\ stack = <<"status_sense">>
        /\ ret = RetBytes(data)
        /\ op = [NoOp EXCEPT !.name = "status_sense"]
        /\ cv = [ConverseFrame(STATUS_SENSE, 5, FALSE)
                    EXCEPT !.pc = "idle", !.want = 5, !.out = RetBytes(data)]
        /\ wum = IdleWum
        /\ stage = ""
        /\ now = 0
        /\ rx = <<>>
        /\ devPending = FALSE
        /\ constructed = TRUE
        /\ calls = <<[call |-> "write", n |-> 1], [call |-> "read", n |-> 5]>>
        /\ quiet = TRUE
        /\ wire = Chr(STATUS_SENSE)
        /\ rxlog = data

SpecDecode == InitDecode /\ [][StatusSenseReturn]_vars

----------------------------------------------------------------------------
\* Properties

WriteCall(n) == [call |-> "write", n |-> n]
ReadCall(n) == [call |-> "read", n |-> n]

IsPrefix(s, t) == Len(s) <= Len(t) /\ s = SubSeq(t, 1, Len(s))

\* the caller's operation `name` has completed (returned or raised)
Done(name) == stack = <<>> /\ op.name = name /\ ret.kind # "none"

\* C1: every exchange ends with the 5 ms quiescent wait before control
\* returns, however its read phase ended (bytes, ErrorWhileReadingError or a
\* transport failure); so the link is un-quiet only inside an exchange, between
\* its write and its wait, and no write follows an earlier write without a
\* wait in between.
C1_QuiescentWaitAlwaysRuns ==
    /\ quiet \/ (InConverse /\ cv.pc \in {"read1", "readrest", "read", "finally"})
    /\ (InConverse /\ cv.pc = "write") => quiet
    /\ (cv.pc \in {"ret", "idle"}) => quiet

C1_Witness ==
    /\ InConverse /\ cv.pc = "ret" /\ quiet
    /\ cv.out.exc = "ErrorWhileReadingError"
    /\ wire # <<>>

\* what C2 expects converse(command, N, check) to ask of the transport
C2_Expected(N, check) ==
    IF ~check THEN <<WriteCall(1), ReadCall(N)>>
    ELSE IF N = 1 THEN <<WriteCall(1), ReadCall(1)>>
    ELSE <<WriteCall(1), ReadCall(1), ReadCall(N - 1)>>

\* C2: a converse that returns bytes has issued exactly one 1-byte write and
\* then one read of N bytes (no sniffing), or a read of 1 byte and then one of
\* N-1 bytes (sniffing; only the 1-byte read when N = 1); and at no point has
\* a converse issued a transport call outside that sequence.
C2_ExactTransportCalls ==
    /\ IsPrefix(calls, C2_Expected(cv.num_bytes, cv.check))
    /\ (cv.pc \in {"finally", "ret", "idle"} /\ cv.out.kind = "bytes")
           => calls = C2_Expected(cv.num_bytes, cv.check)

C2_Witness ==
    /\ InConverse /\ cv.pc = "ret" /\ cv.out.kind = "bytes"
    /\ cv.check /\ cv.num_bytes = 8
    /\ calls = <<WriteCall(1), ReadCall(1), ReadCall(7)>>

\* C3: in get_ctl_time / get_ltc_time (sniffing, N = 8), a first reply byte
\* of NAK (0x0B) or ERROR (0x02) makes the operation raise
\* ErrorWhileReadingError carrying that byte, with no read of the remaining 7
\* bytes issued; any other first byte makes it read the remaining 7, and a
\* value it returns is the first byte followed by them.
C3_SniffedTimeSense ==
    (op.name \in {"get_ctl_time", "get_ltc_time"} /\ rxlog # <<>>) =>
        IF rxlog[1] \in {11, 2}
            THEN /\ calls = <<WriteCall(1), ReadCall(1)>>
                 /\ rxlog = <<rxlog[1]>>
                 /\ Done(op.name) =>
                        /\ ret.kind = "raise"
                        /\ ret.exc = "ErrorWhileReadingError"
                        /\ ret.got = <<rxlog[1]>>
            ELSE /\ calls = <<WriteCall(1), ReadCall(1), ReadCall(7)>>
                 /\ Done(op.name) =>
                        \/ ret.kind = "VCRTime" /\ Len(rxlog) = 8 /\ ret.bytes = rxlog
                        \/ ret.kind = "raise" /\ ret.exc = "SerialException"

C3_Witness ==
    /\ Done("get_ctl_time")
    /\ rxlog = <<2>>
    /\ ret.exc = "ErrorWhileReadingError"

\* C4: oneshot(command) performs one single-byte exchange; it returns
\* normally exactly when the reply byte is ACK (0x0A), and for any other reply
\* byte raises BadResponseError with expected = ACK and got = the byte read.
C4_OneshotAckOrBadResponse ==
    Done("oneshot") =>
        /\ IsPrefix(calls, <<WriteCall(1), ReadCall(1)>>)
        /\ IsPrefix(wire, <<op.command>>)
        /\ ret.kind = "None" <=> rxlog = <<10>>
        /\ (rxlog # <<>> /\ rxlog # <<10>>) =>
               /\ ret.kind = "raise" /\ ret.exc = "BadResponseError"
               /\ ret.expected = 10
               /\ ret.got = rxlog /\ Len(rxlog) = 1

C4_Witness ==
    /\ Done("oneshot")
    /\ rxlog = <<11>>
    /\ ret.exc = "BadResponseError" /\ ret.expected = 10 /\ ret.got = <<11>>

\* C5: is_a_vcr sends VCR_INQ, reads one byte and returns true exactly when
\* that byte is ACK; any other reply byte (NAK and ERROR included) makes it
\* return false, and it raises no protocol error.
C5_IsAVcrProbe ==
    Done("is_a_vcr") =>
        /\ IsPrefix(wire, <<251>>)
        /\ IsPrefix(calls, <<WriteCall(1), ReadCall(1)>>)
        /\ rxlog # <<>> =>
               /\ Len(rxlog) = 1 /\ wire = <<251>>
               /\ ret.kind = "bool"
               /\ ret.flag <=> rxlog[1] = 10
        /\ ret.kind = "raise" => ret.exc = "SerialException"

C5_Witness ==
    /\ Done("is_a_vcr")
    /\ rxlog = <<11>>
    /\ ret.kind = "bool" /\ ~ret.flag

\* C6: construction performs exactly one exchange, the table-1 select (0xF6)
\* with a 1-byte reply, and succeeds for every reply byte: a non-ACK reply is
\* swallowed, and no other command is written during construction.
C6_ConstructionToleratesReply ==
    op.name = "__init__" =>
        /\ IsPrefix(wire, <<246>>)
        /\ IsPrefix(calls, <<WriteCall(1), ReadCall(1)>>)
        /\ (Done("__init__") /\ rxlog # <<>>) =>
               /\ constructed /\ ret.kind = "None"
               /\ wire = <<246>> /\ Len(rxlog) = 1
               /\ calls = <<WriteCall(1), ReadCall(1)>>

C6_Witness ==
    /\ Done("__init__")
    /\ rxlog = <<11>>
    /\ constructed /\ ret.kind = "None"

\* C7: wait_until_mode(target, timeout=0) against statuses that never
\* contain the target returns false after at most one status poll: while no
\* poll has contained the target, no second poll is started, and once the
\* call is over it has returned false.
C7_TimeoutZeroAtMostOnePoll ==
    (op.name = "wait_until_mode" /\ op.timeout = Timeout(0)
        /\ op.mode \notin Elems(wum.seen)) =>
        /\ wum.polls <= 1
        /\ (Done("wait_until_mode") /\ ret.kind = "bool") => ~ret.flag

\* C8: wait_until_mode(target, timeout=T), T finite, returns true only if its
\* most recent poll contained the target, and returns false only when at
\* least T seconds have passed since the call began.
C8_FalseOnlyAfterDeadline ==
    (Done("wait_until_mode") /\ op.timeout.has /\ ret.kind = "bool") =>
        /\ ret.flag => op.mode \in Elems(wum.seen)
        /\ ~ret.flag =>
               /\ op.mode \notin Elems(wum.seen)
               /\ now >= wum.t0 + op.timeout.at

\* C9: wait_until_mode(target) with no timeout never returns false: after a
\* poll without the target it stays in its loop, and when it returns it
\* returns true and its most recent poll contained the target.
C9_NoTimeoutNeverFalse ==
    (op.name = "wait_until_mode" /\ ~op.timeout.has) =>
        /\ ret.kind = "bool" => (stack = <<>> /\ ret.flag)
        /\ (Done("wait_until_mode") /\ ret.kind # "raise") =>
               /\ ret.kind = "bool"
               /\ op.mode \in Elems(wum.seen)
        /\ (wum.polls >= 1 /\ wum.seen # <<>> /\ op.mode \notin Elems(wum.seen)) =>
               /\ ~(stack = <<>> /\ ret.kind = "bool")
               /\ stack # <<>> => stack[1] = "wait_until_mode"

C9_Witness ==
    /\ Done("wait_until_mode") /\ ~op.timeout.has
    /\ ret.kind = "bool" /\ ret.flag
    /\ wum.polls >= 2
    /\ op.mode \in Elems(wum.seen)

\* the order of the commands rewind_to_beginning / play_to_end write
C10_Order ==
    /\ wire # <<>> => wire[1] = MotionCommand(op.name)
    /\ \A i \in 2..Len(wire) : wire[i] = 215
    /\ stage = "oneshot" => Len(wire) <= 1
    /\ stage = "motion" =>
           /\ wum.mode = MotionFlag(op.name)
           /\ wum.abort_time = Timeout(wum.t0 + 10)
    /\ stage = "stop" => (wum.mode = "STOP" /\ ~wum.abort_time.has)

\* the motion flag is polled for up to 10 s: no poll for it starts later
C10_MotionPhaseBounded ==
    (stage = "motion" /\ InConverse /\ cv.pc = "write") => now <= wum.t0 + 10

\* a normal return follows a poll, after the acknowledged command, with STOP
C10_ReturnsAfterStop ==
    (Done(op.name) /\ ret.kind # "raise") =>
        /\ ret.kind = "None" /\ stage = "done"
        /\ Len(wire) >= 3
        /\ wum.mode = "STOP" /\ "STOP" \in Elems(wum.seen)

\* C10: rewind_to_beginning (play_to_end with PLAY for REW) sends the motion
\* command as a oneshot, then polls for the motion flag for up to 10 s, then
\* polls for STOP with no timeout, in that order, and returns normally only
\* after a poll taken after the acknowledged command contained STOP.
C10_MotionThenStop ==
    op.name \in MotionOps =>
        /\ C10_Order
        /\ C10_MotionPhaseBounded
        /\ C10_ReturnsAfterStop

----------------------------------------------------------------------------
\* Properties of status decoding (under SpecDecode)

\* status_sense has decoded the reply in rxlog
Decoded == stack = <<>> /\ op.name = "status_sense" /\ ret.kind \in {"modes", "raise"}

\* the name of bit (k-1) % 8 of byte (k-1) \div 8 + 1, for k = 1..40
C11_Name(k) == STATUS_SENSE_MODE_BITS[((k - 1) \div 8) + 1][((k - 1) % 8) + 1]

C11_IsSet(data, k) ==
    (data[((k - 1) \div 8) + 1] \div (2 ^ ((k - 1) % 8))) % 2 = 1

RECURSIVE C11_Flags(_, _)
C11_Flags(data, k) ==
    IF k > 40 THEN <<>>
    ELSE (IF C11_IsSet(data, k) /\ C11_Name(k) # "" THEN <<C11_Name(k)>> ELSE <<>>)
         \o C11_Flags(data, k + 1)

\* the flag part alone: what status_sense returns starts with the expected flags
C11_FlagsWhenReturned ==
    (Decoded /\ ret.kind = "modes") =>
        /\ Len(ret.modes) = Len(C11_Flags(rxlog, 1)) + 1
        /\ SubSeq(ret.modes, 1, Len(ret.modes) - 1) = C11_Flags(rxlog, 1)

\* C11: for every 5-byte reply status_sense returns the names of the set,
\* non-null bits in byte order and ascending bit order, followed by exactly
\* one final element, the speed label of the low 4 bits of byte 5.
C11_StatusFlagsThenSpeed ==
    Decoded =>
        /\ ret.kind = "modes"
        /\ Len(ret.modes) = Len(C11_Flags(rxlog, 1)) + 1
        /\ SubSeq(ret.modes, 1, Len(ret.modes) - 1) = C11_Flags(rxlog, 1)
        /\ ret.modes[Len(ret.modes)] # ""

\* C12: the speed lookup is total over the 16 four-bit values: status_sense
\* never raises because of the speed code, it returns a list ending in a label.
C12_SpeedLookupTotal ==
    (Decoded /\ rxlog[5] % 16 \in 0..15) =>
        /\ ret.kind = "modes"
        /\ ret.modes # <<>>

\* the 16 labels, one per code, that C16 describes
C16_Labels ==
    <<"STILL", "1/30", "1/18", "1/6", "INVALID(4)", "1", "2(-3)", "5", "7", "11",
      "15", "24", "INVALID(C)", "INVALID(D)", "INVALID(E)", "INVALID(F)">>

\* C16: code 4 resolves to an invalid marker of its own, and codes 5..15
\* resolve to their own labels (5 to '1', 11 to '24', 12 to 'INVALID(C)'),
\* one entry per code 0..15, not shifted by one position.
C16_SpeedLabelPerCode ==
    (Decoded /\ ret.kind = "modes") =>
        ret.modes[Len(ret.modes)] = C16_Labels[(rxlog[5] % 16) + 1]

----------------------------------------------------------------------------
\* Properties of the exchange (under Spec)

\* the static reply length of each command, as C13 lists it
C13_Length(command) ==
    CASE command = 251 -> 1
      [] command = 209 -> 4
      [] command = 114 -> 3
      [] command = 215 -> 5
      [] command \in {217, 220} -> 8
      [] OTHER -> 1

\* C13: an exchange that returns a value returns exactly the N bytes expected
\* for its command (1, 3, 4, 5 or 8); every other outcome is an exception, so
\* no operation returns a shorter buffer, the sniffing path included.
C13_FullLengthOrError ==
    /\ (cv.pc \in {"finally", "ret"}) => cv.out.kind \in {"bytes", "raise"}
    /\ cv.out.kind = "bytes" =>
           /\ Len(cv.out.bytes) = C13_Length(cv.command)
           /\ cv.out.bytes = rxlog
    /\ (Done(op.name) /\ ret.kind \in {"bytes", "VCRTime"}) =>
           /\ op.name \in {"device_type", "rom_version", "get_ctl_time",
                           "get_ltc_time", "converse"}
           /\ Len(ret.bytes) = C13_Length(cv.command)
           /\ op.name = "device_type" => Len(ret.bytes) = 4
           /\ op.name = "rom_version" => Len(ret.bytes) = 3
           /\ op.name \in {"get_ctl_time", "get_ltc_time"} => Len(ret.bytes) = 8

C13_Witness ==
    /\ Done("get_ltc_time")
    /\ ret.kind = "VCRTime" /\ Len(ret.bytes) = 8
    /\ calls = <<WriteCall(1), ReadCall(1), ReadCall(7)>>

C14_MultiByteOps ==
    {"device_type", "rom_version", "status_sense", "get_ctl_time", "get_ltc_time"}

\* C14 as stated: every operation expecting a multi-byte reply reads the first
\* byte alone, and fails with ErrorWhileReadingError if it is NAK or ERROR.
C14_SniffWheneverMultiByte ==
    (op.name \in C14_MultiByteOps /\ Len(calls) >= 2) =>
        /\ calls[2] = ReadCall(1)
        /\ (rxlog # <<>> /\ rxlog[1] \in {11, 2}) =>
               cv.out.exc = "ErrorWhileReadingError"

\* C14, amended: only get_ctl_time and get_ltc_time (N = 8) read the first
\* byte alone and fail with ErrorWhileReadingError on NAK or ERROR;
\* device_type (N = 4), rom_version (N = 3) and status_sense (N = 5) issue one
\* read for all N bytes, never raise ErrorWhileReadingError, and stay blocked
\* in that read when the deck answers with a lone NAK or ERROR byte.
C14_SniffOnlyTimeSense ==
    (op.name \in C14_MultiByteOps /\ Len(calls) >= 2) =>
        IF op.name \in {"get_ctl_time", "get_ltc_time"}
            THEN /\ calls[2] = ReadCall(1)
                 /\ (rxlog # <<>> /\ rxlog[1] \in {11, 2}) =>
                        cv.out.exc = "ErrorWhileReadingError"
            ELSE /\ calls = <<WriteCall(1), ReadCall(C13_Length(cv.command))>>
                 /\ cv.out.exc # "ErrorWhileReadingError"
                 /\ ret.exc # "ErrorWhileReadingError"
                 /\ (rx \in {<<11>>, <<2>>} /\ ~devPending) =>
                        (InConverse /\ cv.pc = "read" /\ rxlog = <<>>)

C14_Witness ==
    /\ op.name = "device_type"
    /\ InConverse /\ cv.pc = "read"
    /\ rx = <<11>> /\ ~devPending
    /\ calls = <<WriteCall(1), ReadCall(4)>>

----------------------------------------------------------------------------
\* Properties of polling and of failures (under Spec)

\* C15: wait_until_mode(target, timeout=T), T finite, against statuses that
\* never contain the target eventually returns false.  Time only moves
\* forward, so the loop must not go on once the timeout has elapsed: after a
\* poll without the target, a further poll is started only while time remains.
C15_FiniteTimeoutTerminates ==
    (op.name = "wait_until_mode" /\ op.timeout.has
        /\ op.mode \notin Elems(wum.seen)
        /\ wum.polls >= 2 /\ wum.pc = "poll") =>
        now < wum.t0 + op.timeout.at

\* C17: the constructor swallows BadResponseError only: a transport failure
\* of the table-select exchange leaves the constructor as that exception, and
\* a non-ACK reply surfaces as BadResponseError from oneshot called by the
\* caller and from rewind_to_beginning / play_to_end.
C17_OnlyBadResponseSwallowedAtInit ==
    /\ (op.name = "__init__" /\ stack = <<>>) =>
           IF cv.out.exc = "SerialException"
               THEN ret.kind = "raise" /\ ret.exc = "SerialException" /\ ~constructed
               ELSE ret.kind = "None" /\ constructed
    /\ (Done("oneshot") /\ rxlog # <<>> /\ rxlog # <<10>>) =>
           (ret.kind = "raise" /\ ret.exc = "BadResponseError")
    /\ (op.name \in MotionOps /\ stack = <<>> /\ stage = "oneshot"
            /\ rxlog # <<>> /\ rxlog # <<10>>) =>
           (ret.kind = "raise" /\ ret.exc = "BadResponseError")

C17_Witness ==
    /\ Done("__init__")
    /\ cv.out.exc = "SerialException" /\ ret.exc = "SerialException"
    /\ ~constructed

\* an exchange of the running operation has failed and the failure is on its
\* way to the caller
Failing ==
    /\ stack # <<>>
    /\ \/ ret.kind = "raise"
       \/ InConverse /\ cv.pc \in {"finally", "ret"} /\ cv.out.kind = "raise"

\* C18: the engine never retries: once an exchange of an operation has failed
\* (BadResponse, ErrorWhileReading, transport failure) the operation writes
\* nothing more, calls nothing more, and ends with the exception (the
\* constructor's tolerated failure aside); a non-ACK reply to a oneshot becomes
\* such a failure at once, so REW / PLAY refused means no STATUS_SENSE is sent.
C18_NeverRetries ==
    [][ /\ Failing =>
              /\ wire' = wire
              /\ Len(stack') <= Len(stack)
              /\ stack' # <<>> => Failing'
              /\ stack' = <<>> => (ret'.kind = "raise" \/ op.name = "__init__")
        /\ (Handed /\ Top = "oneshot" /\ ret.kind = "bytes" /\ ret.bytes # <<10>>) =>
              /\ ret'.kind = "raise"
              /\ wire' = wire
      ]_vars

C18_Witness ==
    /\ Done("rewind_to_beginning")
    /\ stage = "oneshot" /\ rxlog = <<11>>
    /\ ret.exc = "BadResponseError"
    /\ wire = <<172>>

\* C19: inside wait_until_mode consecutive polls are separated by exactly one
\* 1-second sleep, and a first poll that contains the target makes the call
\* return true after exactly one STATUS_SENSE exchange and no sleep.
C19_OneSleepBetweenPolls ==
    op.name = "wait_until_mode" =>
        /\ (~Done("wait_until_mode") \/ ret.kind = "raise" \/ ret.flag) =>
               wum.polls = wum.sleeps + 1
        /\ (Done("wait_until_mode") /\ ret.kind = "bool" /\ ~ret.flag) =>
               wum.polls = wum.sleeps
        /\ now >= wum.t0 + wum.sleeps
        /\ Len(wire) \in {wum.polls - 1, wum.polls}
        /\ \A i \in 1..Len(wire) : wire[i] = 215
        /\ (wum.polls = 1 /\ op.mode \in Elems(wum.seen)) =>
               /\ Done("wait_until_mode") /\ ret.kind = "bool" /\ ret.flag
               /\ wire = <<215>>
               /\ wum.sleeps = 0

C19_Witness ==
    /\ Done("wait_until_mode")
    /\ ret.kind = "bool" /\ ret.flag
    /\ wum.polls = 1 /\ wum.sleeps = 0
    /\ wire = <<215>>

\* a STATUS_SENSE read that holds a lone NAK / ERROR byte from a deck that
\* sends nothing more
C20_Stuck ==
    /\ InConverse /\ cv.command = 215 /\ cv.pc = "read"
    /\ rx \in {<<11>>, <<2>>}
    /\ ~devPending

\* C20: a caller's timeout bounds the polling loop only: when the deck answers
\* STATUS_SENSE with a lone NAK or ERROR byte and nothing more, the 5-byte
\* read never completes, so (short of a transport failure) status_sense and a
\* wait_until_mode around it, with or without timeout, neither return nor
\* raise, however much time passes.
C20_TimeoutDoesNotBoundExchange ==
    [][ (C20_Stuck /\ cv'.out.exc # "SerialException") =>
            /\ C20_Stuck'
            /\ stack' = stack
            /\ ret' = ret
            /\ wum' = wum
      ]_vars

C20_Witness ==
    /\ C20_Stuck
    /\ stack = <<"wait_until_mode", "status_sense", "converse">>
    /\ op.timeout.has
    /\ now > wum.abort_time.at

====
